---- MODULE Spec2Model ----
(***************************************************************************)
(* Euler1D_Solve (src/src_py/src/solvers.py): the constructor's validation *)
(* chain, the eager computation of mesh, h and solution, and the methods   *)
(* callable on a constructed solver.                                       *)
(*                                                                         *)
(* Numbers.  A Python float is modelled as a binary floating-point number  *)
(* with Prec significant bits, round-to-nearest-even, and a smallest       *)
(* quantum (the subnormal spacing) of one unit; 1.0 is One = 2^FracBits    *)
(* units.  A float is represented by its integer number of units.  Inputs  *)
(* are finite and small enough that no operation overflows.                *)
(***************************************************************************)
EXTENDS Integers, Sequences, FiniteSets

\* ------------------------------------------------------------------ bounds
Prec == 4
FracBits == 2
MaxSteps == 3
MaxOps == 2

\* ------------------------------------------------------- float arithmetic
RECURSIVE Pow2(_)
Pow2(n) == IF n = 0 THEN 1 ELSE 2 * Pow2(n - 1)

One == Pow2(FracBits)

Abs(x) == IF x < 0 THEN -x ELSE x

\* a \div d rounded to the nearest integer, ties to the even one (a >= 0, d > 0)
RoundDiv(a, d) ==
    LET n == a \div d
        r == a % d
    IN  IF 2 * r < d THEN n
        ELSE IF 2 * r > d THEN n + 1
        ELSE IF n % 2 = 0 THEN n ELSE n + 1

\* the spacing of the floats around num/den: the smallest power of two q
\* (at least one unit) with num/den < q * 2^Prec   (num >= 0, den > 0)
RECURSIVE Quantum(_, _, _)
Quantum(num, den, q) ==
    IF num < q * Pow2(Prec) * den THEN q ELSE Quantum(num, den, 2 * q)

\* the float nearest to the rational num/den (den > 0), in units
RN(num, den) ==
    LET a == Abs(num)
        q == Quantum(a, den, 1)
        m == q * RoundDiv(a, den * q)
    IN  IF num < 0 THEN -m ELSE m

IsFloat(v) == RN(v, 1) = v

fadd(a, b) == RN(a + b, 1)
fsub(a, b) == RN(a - b, 1)
fmul(a, b) == RN(a * b, One)
\* a / b for b > 0
fdiv(a, b) == RN(a * One, b)

\* ---------------------------------------------------------- Python values
Flt(v) == [type |-> "float", val |-> v]
IntV(n) == [type |-> "int", val |-> n]
BoolV(b) == [type |-> "bool", val |-> b]
StrV == [type |-> "str", val |-> 0]

\* isinstance(x, int): bool is a subclass of int
IsInstanceInt(x) == x.type \in {"int", "bool"}
\* isinstance(x, (int, float))
IsInstanceIntFloat(x) == x.type \in {"int", "bool", "float"}
IsInstanceBool(x) == x.type = "bool"
\* callable(f)
Callable(x) == x.type = "function"
\* float(x) of an int, bool or float
ToFloat(x) == IF x.type = "float" THEN x.val ELSE x.val * One
\* the int an int or bool counts as (True is 1, False is 0)
IntOf(x) == x.val

NoFail == -1
Kinds == {"y", "t_minus_y", "calls"}
FailAts == {NoFail, 1, MaxSteps + 1}
Fn(kind, failAt) == [type |-> "function", kind |-> kind, failAt |-> failAt]
NotFn(type) == [type |-> type, kind |-> "", failAt |-> NoFail]

FArgs == {Fn(kd, fa) : kd \in Kinds, fa \in FailAts} \cup {NotFn("str"), NotFn("bool")}
\* -1.0, 0.0, one unit, 1.0, ten units, 13.0
TimeVals == {v \in {-One, 0, 1, One, 10, 13 * One} : IsFloat(v)}
TArgs == {Flt(v) : v \in TimeVals} \cup {IntV(0), BoolV(0), StrV}
Y0Args == {Flt(One), Flt(3), IntV(2), BoolV(1), StrV}
NArgs == {IntV(n) : n \in -1 .. MaxSteps}
           \cup {Flt(3 * One + One \div 2), BoolV(0), BoolV(1), StrV}

\* ------------------------------------------------------------ exceptions
Exc(exc, msg) == [exc |-> exc, msg |-> msg, at |-> NoFail]
NoErr == Exc("", "")
NotCallable == Exc("TypeError", "f must be a callable function.")
NotANumber == Exc("TypeError", "t_start and t_end must be numbers.")
RangeViolation == Exc("ValueError", "t_start must be less than t_end.")
InvalidStepCount == Exc("ValueError", "num_steps must be a pos integer.")
NotANumberY0 == Exc("TypeError", "y_0 must be a real number.")
\* what the derivative function raises on its call number n
FExc(n) == [exc |-> "RuntimeError", msg |-> "raised by f", at |-> n]

ValidationErrors ==
    {NotCallable, NotANumber, RangeViolation, InvalidStepCount, NotANumberY0}

\* ------------------------------------------------------ library: numpy
\* (mutant) np.linspace without the overwrite of the last element
np_linspace_computed_end(start, stop, num) ==
    LET div == num - 1
        delta == fsub(stop, start)
        step == fdiv(delta, div * One)
        scaled(i) == IF step = 0
                     THEN fmul(fdiv(i * One, div * One), delta)
                     ELSE fmul(i * One, step)
    IN  [j \in 1 .. num |-> fadd(scaled(j - 1), start)]

\* np.linspace(start, stop, num) for num >= 2, endpoint=True: arange(0, num)
\* scaled by step = (stop - start) / (num - 1) (or, when that quotient is
\* zero, divided by num - 1 and then scaled by stop - start), shifted by
\* start, and the last element overwritten with stop
np_linspace(start, stop, num) ==
    LET div == num - 1
        delta == fsub(stop, start)
        step == fdiv(delta, div * One)
        scaled(i) == IF step = 0
                     THEN fmul(fdiv(i * One, div * One), delta)
                     ELSE fmul(i * One, step)
    IN  [j \in 1 .. num |-> IF j = num THEN stop ELSE fadd(scaled(j - 1), start)]

\* np.zeros(num)
np_zeros(num) == [j \in 1 .. num |-> 0]

\* ------------------------------------------------- the derivative function
\* whether the call number n (0-based, counted over the callable's life) raises
FRaises(fn, n) == fn.failAt = n
\* the value f(t, yv) returns on its call number n
FValue(fn, t, yv, n) ==
    IF fn.kind = "y" THEN yv
    ELSE IF fn.kind = "t_minus_y" THEN fsub(t, yv)
    ELSE RN(n * One, 1)
\* f is a function of (t, y) alone and never raises
Deterministic(fn) == fn.kind # "calls" /\ fn.failAt = NoFail

\* ------------------------------------------------------------------ state
VARIABLES
    args,       \* the constructor's arguments f, t_start, t_end, y_0, num_steps
    pc,         \* the statement the program is at
    caller,     \* who runs solve(): "init" (the constructor) or "user"
    assigned,   \* the attributes of self that have been assigned
    f, t_start, t_end, y_0, num_steps, mesh, h, solution,   \* self.*
    y, k,       \* solve()'s local array and loop index
    calls,      \* the invocations of f by the running (or last) solve()
    fcalls,     \* how often f has been invoked in all
    err,        \* the exception the constructor or the last solve() raised
    ret,        \* what the last method call of the user returned
    out,        \* what plot_solution / csv_export last handed to plt / pandas
    ops,        \* the number of method calls the user has made
    log         \* the statements the constructor has executed, in order

fields == <<f, t_start, t_end, y_0, num_steps, mesh, h, solution, assigned>>
locals == <<y, k, calls>>
vars == <<args, pc, caller, fields, locals, fcalls, err, ret, out, ops, log>>

NoRet == [op |-> "", val |-> <<>>]
NoOut == [op |-> "", t |-> <<>>, y |-> <<>>, label |-> <<>>]

Init ==
    /\ args \in [f : FArgs, t_start : TArgs, t_end : TArgs, y_0 : Y0Args,
                 num_steps : NArgs]
    /\ pc = "validate_f"
    /\ caller = "init"
    /\ assigned = {}
    /\ f = NotFn("")
    /\ t_start = 0 /\ t_end = 0 /\ y_0 = 0
    /\ num_steps = IntV(0)
    /\ mesh = <<>> /\ h = 0 /\ solution = <<>>
    /\ y = <<>> /\ k = 0 /\ calls = <<>>
    /\ fcalls = 0
    /\ err = NoErr
    /\ ret = NoRet
    /\ out = NoOut
    /\ ops = 0
    /\ log = <<>>

\* (mutant) the error is recorded and the constructor returns
RaiseAndReturn(e) == /\ err' = e
                     /\ pc' = "Ready"

\* raise e out of the constructor
Raise(e) == /\ err' = e
            /\ pc' = "Failed"

\* --------------------------------------------------- __init__: validation
\* (mutant) the num_steps check placed before the range check
AfterValidationSwapped(check) ==
    CASE check = "validate_f" -> "validate_t"
      [] check = "validate_t" -> "validate_num_steps"
      [] check = "validate_num_steps" -> "validate_range"
      [] check = "validate_range" -> "validate_y_0"
      [] check = "validate_y_0" -> "create_1d_mesh"

\* the next statement after a validation that passed
AfterValidation(check) ==
    CASE check = "validate_f" -> "validate_t"
      [] check = "validate_t" -> "validate_range"
      [] check = "validate_range" -> "validate_num_steps"
      [] check = "validate_num_steps" -> "validate_y_0"
      [] check = "validate_y_0" -> "create_1d_mesh"

validate_f ==
    /\ pc = "validate_f"
    /\ log' = Append(log, "validate_f")
    /\ IF ~Callable(args.f)
       THEN /\ Raise(NotCallable)
            /\ UNCHANGED fields
       ELSE /\ f' = args.f
            /\ assigned' = assigned \cup {"f"}
            /\ pc' = AfterValidation("validate_f")
            /\ UNCHANGED <<err, t_start, t_end, y_0, num_steps, mesh, h, solution>>
    /\ UNCHANGED <<args, caller, locals, fcalls, ret, out, ops>>

validate_t ==
    /\ pc = "validate_t"
    /\ log' = Append(log, "validate_t")
    /\ IF ~IsInstanceIntFloat(args.t_start) \/ ~IsInstanceIntFloat(args.t_end)
       THEN Raise(NotANumber)
       ELSE /\ pc' = AfterValidation("validate_t")
            /\ UNCHANGED err
    /\ UNCHANGED <<args, caller, fields, locals, fcalls, ret, out, ops>>

validate_range ==
    /\ pc = "validate_range"
    /\ log' = Append(log, "validate_range")
    /\ IF ToFloat(args.t_start) >= ToFloat(args.t_end)
       THEN /\ Raise(RangeViolation)
            /\ UNCHANGED fields
       ELSE /\ t_start' = ToFloat(args.t_start)
            /\ t_end' = ToFloat(args.t_end)
            /\ assigned' = assigned \cup {"t_start", "t_end"}
            /\ pc' = AfterValidation("validate_range")
            /\ UNCHANGED <<err, f, y_0, num_steps, mesh, h, solution>>
    /\ UNCHANGED <<args, caller, locals, fcalls, ret, out, ops>>

\* not isinstance(num_steps, int) or num_steps <= 0
BadNumSteps(n) == ~IsInstanceInt(n) \/ IntOf(n) <= 0

validate_num_steps ==
    /\ pc = "validate_num_steps"
    /\ log' = Append(log, "validate_num_steps")
    /\ IF BadNumSteps(args.num_steps)
       THEN /\ Raise(InvalidStepCount)
            /\ UNCHANGED fields
       ELSE /\ num_steps' = args.num_steps
            /\ assigned' = assigned \cup {"num_steps"}
            /\ pc' = AfterValidation("validate_num_steps")
            /\ UNCHANGED <<err, f, t_start, t_end, y_0, mesh, h, solution>>
    /\ UNCHANGED <<args, caller, locals, fcalls, ret, out, ops>>

\* not isinstance(y_0, (int, float)) or isinstance(y_0, bool)
BadY0(v) == ~IsInstanceIntFloat(v) \/ IsInstanceBool(v)

validate_y_0 ==
    /\ pc = "validate_y_0"
    /\ log' = Append(log, "validate_y_0")
    /\ IF BadY0(args.y_0)
       THEN /\ Raise(NotANumberY0)
            /\ UNCHANGED fields
       ELSE /\ y_0' = ToFloat(args.y_0)
            /\ assigned' = assigned \cup {"y_0"}
            /\ pc' = AfterValidation("validate_y_0")
            /\ UNCHANGED <<err, f, t_start, t_end, num_steps, mesh, h, solution>>
    /\ UNCHANGED <<args, caller, locals, fcalls, ret, out, ops>>

\* -------------------------------------------------------------- methods
\* create_1d_mesh(): np.linspace(self.t_start, self.t_end, self.num_steps + 1)
create_1d_mesh == np_linspace(t_start, t_end, IntOf(num_steps) + 1)

\* calc_step_size(): (self.t_end - self.t_start) / self.num_steps
calc_step_size == fdiv(fsub(t_end, t_start), IntOf(num_steps) * One)

\* (mutant) the step size left out of the update
EulerStepNoH(yk, hh, fv) == fadd(yk, fv)

\* y[k] + self.h * f(t, y[k])
EulerStep(yk, hh, fv) == fadd(yk, fmul(hh, fv))

\* (mutant) f is handed the elements of index k + 1
StepIndexNext(kk) == kk + 2

\* the element of self.mesh and of y that iteration kk hands to f (1-based)
StepIndex(kk) == kk + 1

\* (mutant) a later solve() resumes from the end of the stored solution
InitialValueResumed ==
    IF "solution" \in assigned THEN solution[Len(solution)] ELSE y_0

\* y[0] = self.y_0
InitialValue == y_0

\* (mutant) the loop catches what f raised and goes on to the next iteration
Swallow(e) ==
    /\ k' = k + 1
    /\ UNCHANGED <<err, pc, y>>

\* f raised e inside the loop: nothing catches it, so it leaves solve() and,
\* when __init__ is the caller, the constructor
Propagate(e) ==
    /\ err' = e
    /\ pc' = IF caller = "init" THEN "Failed" ELSE "Ready"
    /\ UNCHANGED <<y, k>>

\* range(self.num_steps) is exhausted
LoopDone == k >= IntOf(num_steps)

\* ------------------------------------------ __init__: the eager computation
\* self.mesh = self.create_1d_mesh()
init_create_1d_mesh ==
    /\ pc = "create_1d_mesh"
    /\ log' = Append(log, "create_1d_mesh")
    /\ mesh' = create_1d_mesh
    /\ assigned' = assigned \cup {"mesh"}
    /\ pc' = "calc_step_size"
    /\ UNCHANGED <<args, caller, f, t_start, t_end, y_0, num_steps, h, solution,
                   locals, fcalls, err, ret, out, ops>>

\* self.h = self.calc_step_size()
init_calc_step_size ==
    /\ pc = "calc_step_size"
    /\ log' = Append(log, "calc_step_size")
    /\ h' = calc_step_size
    /\ assigned' = assigned \cup {"h"}
    /\ pc' = "solve"
    /\ UNCHANGED <<args, caller, f, t_start, t_end, y_0, num_steps, mesh, solution,
                   locals, fcalls, err, ret, out, ops>>

\* ------------------------------------------------------------------ solve
\* y = np.zeros(self.num_steps + 1); y[0] = self.y_0
solve_enter ==
    /\ \/ /\ pc = "solve"
          /\ log' = Append(log, "solve")
          /\ UNCHANGED <<caller, ops, err>>
       \/ /\ pc = "Ready"
          /\ ops < MaxOps
          /\ ops' = ops + 1
          /\ caller' = "user"
          /\ err' = NoErr
          /\ UNCHANGED log
    /\ y' = [np_zeros(IntOf(num_steps) + 1) EXCEPT ![1] = InitialValue]
    /\ k' = 0
    /\ calls' = <<>>
    /\ pc' = "loop"
    /\ UNCHANGED <<args, fields, fcalls, ret, out>>

\* one iteration: t = self.mesh[k]; y[k + 1] = y[k] + self.h * self.f(t, y[k])
solve_step ==
    /\ pc = "loop"
    /\ ~LoopDone
    /\ LET t == mesh[StepIndex(k)]
           yk == y[StepIndex(k)]
       IN  /\ fcalls' = fcalls + 1
           /\ calls' = Append(calls, [k |-> k, t |-> t, y |-> yk,
                                      val |-> FValue(f, t, yk, fcalls),
                                      raised |-> FRaises(f, fcalls)])
           /\ IF FRaises(f, fcalls)
              THEN Propagate(FExc(fcalls))
              ELSE /\ y' = [y EXCEPT ![k + 2] = EulerStep(yk, h, FValue(f, t, yk, fcalls))]
                   /\ k' = k + 1
                   /\ UNCHANGED <<err, pc>>
    /\ log' = IF caller = "init" THEN Append(log, "f") ELSE log
    /\ UNCHANGED <<args, caller, fields, ret, out, ops>>

\* (mutant) solve() itself stores what it returns in self.solution
solve_return_storing ==
    /\ pc = "loop"
    /\ LoopDone
    /\ solution' = y
    /\ assigned' = assigned \cup {"solution"}
    /\ ret' = IF caller = "init" THEN ret ELSE [op |-> "solve", val |-> y]
    /\ pc' = "Ready"
    /\ UNCHANGED <<args, caller, f, t_start, t_end, y_0, num_steps, mesh, h,
                   locals, fcalls, err, out, ops, log>>

\* return y: to self.solution = ... in __init__, or to the user
solve_return ==
    /\ pc = "loop"
    /\ LoopDone
    /\ IF caller = "init"
       THEN /\ solution' = y
            /\ assigned' = assigned \cup {"solution"}
            /\ UNCHANGED <<ret, f, t_start, t_end, y_0, num_steps, mesh, h>>
       ELSE /\ ret' = [op |-> "solve", val |-> y]
            /\ UNCHANGED fields
    /\ pc' = "Ready"
    /\ UNCHANGED <<args, caller, locals, fcalls, err, out, ops, log>>

\* ------------------------------------- the other methods, called by the user
user_create_1d_mesh ==
    /\ pc = "Ready"
    /\ ops < MaxOps
    /\ ops' = ops + 1
    /\ caller' = "user"
    /\ ret' = [op |-> "create_1d_mesh", val |-> create_1d_mesh]
    /\ UNCHANGED <<args, pc, fields, locals, fcalls, err, out, log>>

user_calc_step_size ==
    /\ pc = "Ready"
    /\ ops < MaxOps
    /\ ops' = ops + 1
    /\ caller' = "user"
    /\ ret' = [op |-> "calc_step_size", val |-> <<calc_step_size>>]
    /\ UNCHANGED <<args, pc, fields, locals, fcalls, err, out, log>>

\* plt.plot(self.mesh, self.solution, label="... h ..., n ...")
plot_solution ==
    /\ pc = "Ready"
    /\ ops < MaxOps
    /\ ops' = ops + 1
    /\ caller' = "user"
    /\ out' = [op |-> "plot", t |-> mesh, y |-> solution,
               label |-> <<h, IntOf(num_steps)>>]
    /\ UNCHANGED <<args, pc, fields, locals, fcalls, err, ret, log>>

\* pd.DataFrame({"t": self.mesh, "y(t)": self.solution}).to_csv(filename)
csv_export ==
    /\ pc = "Ready"
    /\ ops < MaxOps
    /\ ops' = ops + 1
    /\ caller' = "user"
    /\ out' = [op |-> "csv", t |-> mesh, y |-> solution, label |-> <<>>]
    /\ UNCHANGED <<args, pc, fields, locals, fcalls, err, ret, log>>

Next ==
    \/ validate_f
    \/ validate_t
    \/ validate_range
    \/ validate_num_steps
    \/ validate_y_0
    \/ init_create_1d_mesh
    \/ init_calc_step_size
    \/ solve_enter
    \/ solve_step
    \/ solve_return
    \/ user_create_1d_mesh
    \/ user_calc_step_size
    \/ plot_solution
    \/ csv_export

Spec == Init /\ [][Next]_vars

\* =================================================================== claims
N == IntOf(num_steps)
Logged(stmt) == \E i \in 1 .. Len(log) : log[i] = stmt
\* the constructor has returned a solver
Constructed == pc = "Ready" \/ caller = "user"
\* a genuine integer >= 1 (not a boolean)
GenuinePositiveInt(x) == x.type = "int" /\ x.val >= 1
\* a real number (not a boolean, not a string)
RealNumber(x) == x.type \in {"int", "float"}

\* C1: once the num_steps check has run, construction has failed with
\* InvalidStepCount exactly when num_steps is not a genuine integer >= 1
\* (negative, zero, a float, a string, True or False).
C1_InvalidStepCount ==
    Logged("validate_num_steps") =>
        ((err = InvalidStepCount) <=> ~GenuinePositiveInt(args.num_steps))

\* C2: once the t_start/t_end type check has run, construction has failed with
\* NotANumber exactly when t_start or t_end is not a real number, a boolean
\* counting as not a real number; no solver is constructed with a boolean bound.
C2_NotANumber ==
    /\ Logged("validate_t") =>
           ((err = NotANumber) <=>
                (~RealNumber(args.t_start) \/ ~RealNumber(args.t_end)))
    /\ Constructed =>
           (args.t_start.type # "bool" /\ args.t_end.type # "bool")

\* sol is y_0 followed by the Euler recurrence over self.mesh with step h, the
\* i-th invocation of f being the call number first + i - 1
IsEulerSolution(sol, first) ==
    /\ Len(sol) = N + 1
    /\ sol[1] = y_0
    /\ \A i \in 1 .. N :
           sol[i + 1] = fadd(sol[i], fmul(h, FValue(f, mesh[i], sol[i], first + i - 1)))

\* C3: the array solve() is about to return, and the solution stored by the
\* constructor, have num_steps+1 elements, start with y_0 and satisfy
\* solution[k+1] = solution[k] + h * f(mesh[k], solution[k]) with
\* h = (t_end - t_start) / num_steps; f(t,y) = y on [0,1] with y_0 = 1 and
\* num_steps = 2 gives [1, 1.5, 2.25].
C3_EulerRecurrence ==
    /\ (pc = "loop" /\ LoopDone) => IsEulerSolution(y, fcalls - N)
    /\ Constructed =>
           /\ IsEulerSolution(solution, 0)
           /\ y_0 = ToFloat(args.y_0)
           /\ h = fdiv(fsub(t_end, t_start), N * One)
           /\ ret.op = "solve" => (Len(ret.val) = N + 1 /\ ret.val[1] = y_0)
    /\ (/\ Constructed
        /\ args = [f |-> Fn("y", NoFail), t_start |-> Flt(0), t_end |-> Flt(One),
                   y_0 |-> Flt(One), num_steps |-> IntV(2)])
           => /\ h = One \div 2
              /\ solution = <<One, One + One \div 2, 2 * One + One \div 4>>
              /\ ret.op = "solve" => ret.val = solution

C3_Witness ==
    /\ pc = "Ready"
    /\ ret.op = "solve"
    /\ args = [f |-> Fn("y", NoFail), t_start |-> Flt(0), t_end |-> Flt(One),
               y_0 |-> Flt(One), num_steps |-> IntV(2)]
    /\ solution = <<One, One + One \div 2, 2 * One + One \div 4>>

\* C4: in a run of solve() the i-th invocation of f is iteration k = i-1 and
\* receives (mesh[k], y[k]), y[k] being the element already written; after k
\* iterations f has been invoked k times, num_steps times when the loop ends,
\* and the constructor alone invokes f exactly num_steps times.
C4_CallOrder ==
    /\ pc = "loop" =>
           /\ Len(calls) = k
           /\ k <= N
           /\ \A i \in 1 .. Len(calls) :
                  /\ calls[i].k = i - 1
                  /\ calls[i].t = mesh[i]
                  /\ calls[i].y = y[i]
                  /\ i <= k
    /\ (pc = "loop" /\ LoopDone) => Len(calls) = N
    /\ (pc = "Ready" /\ ops = 0) => (fcalls = N /\ Len(calls) = N)

C4_Witness ==
    /\ pc = "loop" /\ LoopDone
    /\ N = MaxSteps
    /\ Len(calls) = MaxSteps
    /\ calls[MaxSteps].y # y_0

\* C5: when the constructor has raised a validation error, only validation
\* statements have run: no mesh, step size or solution was computed or
\* assigned, f was never invoked, nothing was returned, and the failed
\* construction never becomes a Ready solver.
C5_ValidationFirst ==
    err \in ValidationErrors =>
        /\ pc = "Failed"
        /\ \A i \in 1 .. Len(log) :
               log[i] \in {"validate_f", "validate_t", "validate_range",
                           "validate_num_steps", "validate_y_0"}
        /\ assigned \cap {"mesh", "h", "solution"} = {}
        /\ mesh = <<>> /\ solution = <<>>
        /\ fcalls = 0 /\ calls = <<>>
        /\ ops = 0 /\ ret = NoRet /\ out = NoOut

C5_Witness ==
    /\ pc = "Failed"
    /\ err = NotANumberY0
    /\ Len(log) = 5

\* the floating-point value of t_start + i * h
MeshPoint(i) == fadd(fmul(i * One, h), t_start)

\* m has num_steps+1 elements, begins at t_start and ends at t_end
SpansInterval(m) ==
    /\ Len(m) = N + 1
    /\ m[1] = t_start
    /\ m[N + 1] = t_end

\* C6 as stated: the mesh has num_steps+1 elements, mesh[0] = t_start,
\* mesh[num_steps] = t_end exactly, and mesh[k] = t_start + k*h for every k in
\* 0..num_steps, h being the step size calc_step_size() returns.
C6_MeshAsStated ==
    Constructed =>
        /\ SpansInterval(mesh)
        /\ h = calc_step_size
        /\ \A i \in 0 .. N : mesh[i + 1] = MeshPoint(i)

\* C6 amended: the mesh stored by the constructor, and the one a later call of
\* create_1d_mesh() returns, have num_steps+1 elements with mesh[0] = t_start
\* and mesh[num_steps] = t_end exactly; when h is not zero, mesh[k] is the
\* floating-point value of t_start + k*h for every k in 0..num_steps-1 (the
\* last element is t_end itself, whatever t_start + num_steps*h rounds to).
C6_MeshAmended ==
    Constructed =>
        /\ SpansInterval(mesh)
        /\ h = calc_step_size
        /\ h # 0 => \A i \in 0 .. N - 1 : mesh[i + 1] = MeshPoint(i)
        /\ ret.op = "create_1d_mesh" => ret.val = mesh
        /\ ret.op = "calc_step_size" => ret.val = <<h>>

\* a mesh whose last element is not the rounded t_start + num_steps*h, read
\* back by create_1d_mesh()
C6_Witness ==
    /\ pc = "Ready"
    /\ ret.op = "create_1d_mesh"
    /\ args.t_start = Flt(0) /\ args.t_end = Flt(13 * One)
    /\ N = 3
    /\ h # 0
    /\ mesh[N + 1] = t_end
    /\ mesh[N + 1] # MeshPoint(N)

\* C7: an invocation of f that raises is the last invocation of its run of
\* solve(); the exception the caller gets is the one f raised; when the
\* constructor was the caller the construction has failed, self.solution was
\* never assigned and f is not invoked again.
C7_Propagation ==
    \A i \in 1 .. Len(calls) :
        calls[i].raised =>
            /\ i = Len(calls)
            /\ err = FExc(f.failAt)
            /\ pc = IF caller = "init" THEN "Failed" ELSE "Ready"
            /\ caller = "init" =>
                   /\ "solution" \notin assigned
                   /\ solution = <<>>
                   /\ fcalls = f.failAt + 1
                   /\ ops = 0

\* f raised on its second call, inside the constructor
C7_Witness ==
    /\ pc = "Failed"
    /\ caller = "init"
    /\ Len(calls) = 2
    /\ calls[2].raised
    /\ N = MaxSteps

\* C8: with a deterministic f, whatever solve() has returned to the user is,
\* element for element, the solution stored at construction (so any two calls
\* return the same sequence).
C8_Idempotent ==
    (Deterministic(f) /\ ret.op = "solve") => ret.val = solution

\* the second of two calls of solve() has returned
C8_Witness ==
    /\ pc = "Ready"
    /\ Deterministic(f)
    /\ ret.op = "solve"
    /\ ops = 2
    /\ fcalls = 3 * N
    /\ N > 1
    /\ solution[N + 1] # solution[1]

\* the constructor's computing statements, in the order they ran
Computations ==
    SelectSeq(log, LAMBDA e : e \in {"create_1d_mesh", "calc_step_size", "solve"})

\* C9: every step taken while solve() runs in the constructor has mesh and h
\* assigned; every step taken on a constructed solver (solve, create_1d_mesh,
\* calc_step_size, plot_solution, csv_export) starts from a solver whose
\* constructor computed mesh, h and solution once each, in that order, and
\* leaves f, t_start, t_end, y_0, num_steps, mesh, h and solution as they were.
C9_ComputedOnce ==
    [][/\ pc \in {"solve", "loop"} => {"mesh", "h"} \subseteq assigned
       /\ Constructed =>
              /\ Computations = <<"create_1d_mesh", "calc_step_size", "solve">>
              /\ assigned = {"f", "t_start", "t_end", "y_0", "num_steps",
                             "mesh", "h", "solution"}
              /\ fields' = fields]_vars

\* a user's solve() with a stateful f has returned something else than the
\* stored solution
C9_Witness ==
    /\ pc = "Ready"
    /\ ops = MaxOps
    /\ ret.op = "solve"
    /\ ret.val # solution
    /\ out.op = "csv"

\* the error of the first check, in the constructor's order, that args fail
FirstFailing ==
    IF args.f.type # "function" THEN NotCallable
    ELSE IF args.t_start.type \notin {"int", "bool", "float"}
            \/ args.t_end.type \notin {"int", "bool", "float"} THEN NotANumber
    ELSE IF ToFloat(args.t_start) >= ToFloat(args.t_end) THEN RangeViolation
    ELSE IF args.num_steps.type \notin {"int", "bool"} \/ args.num_steps.val <= 0
         THEN InvalidStepCount
    ELSE IF args.y_0.type \notin {"int", "float"} THEN NotANumberY0
    ELSE NoErr

CheckOrder ==
    <<"validate_f", "validate_t", "validate_range", "validate_num_steps",
      "validate_y_0">>
CheckError ==
    <<NotCallable, NotANumber, RangeViolation, InvalidStepCount, NotANumberY0>>

\* C10: the checks run in the order f, t_start/t_end numeric, t_start < t_end,
\* num_steps, y_0; a failed construction reports the error of the first check
\* that fails and has evaluated no check after it; a construction that gets
\* past validation fails no check.
C10_FirstError ==
    /\ \A i \in 1 .. Len(log) : i <= 5 => log[i] = CheckOrder[i]
    /\ err \in ValidationErrors =>
           /\ err = FirstFailing
           /\ err = CheckError[Len(log)]
    /\ "y_0" \in assigned => FirstFailing = NoErr

\* t_start = t_end, num_steps and y_0 all invalid: RangeViolation is reported
C10_Witness ==
    /\ pc = "Failed"
    /\ err = RangeViolation
    /\ ToFloat(args.t_start) = ToFloat(args.t_end)
    /\ BadNumSteps(args.num_steps)
    /\ BadY0(args.y_0)
    /\ Len(log) = 3

====
